---- MODULE Spec2Model ----
(***************************************************************************)
(* JSONBLite (src/src/jsonblite.ts): a single-file key-value store with a  *)
(* write-ahead journal, advisory whole-file locks and a last_modified      *)
(* stamp that lets independent handles observe each other's writes.        *)
(*                                                                         *)
(* The db file is a header followed by a body of cells.  One cell stands   *)
(* for one byte of the data region or one encoded element of the index;    *)
(* file offsets are the program's (the body starts at offset HEADER_SIZE). *)
(* Every fs.*Sync call that touches a shared file is one step of its       *)
(* handle unless the handle holds the lock that makes the sequence atomic. *)
(***************************************************************************)
EXTENDS Integers, Sequences, FiniteSets, TLC

\* ------------------------------------------------------------- bounds
MaxOps == 3       \* mutating operations (write, delete, vacuum) started in a run
MaxClock == 2     \* Date.now() returns a value in 0..MaxClock, in any order
MaxBody == 2      \* cells after the header in a file found on disk at open
MaxDump == 2      \* writes and deletes that precede a dump
MaxLive == 2      \* mutating operations started in the runs checked for progress

\* ---------------------------------------------------------- constants
HEADER_SIZE == 36
HEADER_VERSION == 1

Handles == {"A", "B"}
Keys == {"a", "b"}
KeyInputs == Keys \cup {""}   \* what a caller may pass as a key
Values == {1, 2}          \* value v encodes to v bytes
Null == 0                 \* read() of an absent key
Garbage == -1             \* bytes that are no value's encoding
NoFd == -1

\* ------------------------------------------------------------- codec
Zero == [t |-> "z", k |-> "", a |-> 0, b |-> 0]

\* encode(value): the value's bytes
encode(v) == [i \in 1..v |-> [t |-> "d", k |-> "", a |-> v, b |-> i]]

\* decode(readBuffer): the value whose encoding the bytes are
decode(bytes) ==
    IF \E v \in Values : bytes = encode(v)
    THEN CHOOSE v \in Values : bytes = encode(v)
    ELSE Garbage

\* encode(this.index): a map header carrying the entry count, then the
\* entries in insertion order
encodeIndex(index) ==
    <<[t |-> "m", k |-> "", a |-> Len(index), b |-> 0]>> \o
    [i \in 1..Len(index) |->
        [t |-> "e", k |-> index[i].key, a |-> index[i].offset, b |-> index[i].size]]

\* decode(indexBytes) instanceof Map
IsIndexBytes(bytes) ==
    /\ Len(bytes) >= 1
    /\ bytes[1].t = "m"
    /\ bytes[1].a = Len(bytes) - 1
    /\ \A i \in 2..Len(bytes) : bytes[i].t = "e"

decodeIndex(bytes) ==
    [i \in 1..(Len(bytes) - 1) |->
        [key |-> bytes[i + 1].k, offset |-> bytes[i + 1].a, size |-> bytes[i + 1].b]]

\* -------------------------------------------------- Map<string, [number, number]>
IndexKeys(index) == [i \in 1..Len(index) |-> index[i].key]

IndexHas(index, key) == \E i \in 1..Len(index) : index[i].key = key

IndexGet(index, key) == index[CHOOSE i \in 1..Len(index) : index[i].key = key]

\* A set that moves a key already present to the end
IndexSetMoveLast(index, key, offset, size) ==
    Append(SelectSeq(index, LAMBDA e : e.key # key),
           [key |-> key, offset |-> offset, size |-> size])

\* Map.set keeps the position of a key already present and appends a new one
IndexSet(index, key, offset, size) ==
    LET e == [key |-> key, offset |-> offset, size |-> size]
    IN  IF IndexHas(index, key)
        THEN [i \in 1..Len(index) |-> IF index[i].key = key THEN e ELSE index[i]]
        ELSE Append(index, e)

IndexDelete(index, key) == SelectSeq(index, LAMBDA e : e.key # key)

\* ------------------------------------------------------------- files
createDefaultHeader ==
    [magic |-> "jsonblite", version |-> HEADER_VERSION,
     indexSize |-> Len(encodeIndex(<<>>)), dataSize |-> 0,
     lastModified |-> 0, lastVacuum |-> 0]

DEFAULT_FILE_CONTENT == [hdr |-> createDefaultHeader, body |-> encodeIndex(<<>>)]

FileSize(f) == HEADER_SIZE + Len(f.body)

\* fs.readSync(fd, buffer, 0, n, pos) into a zero-filled buffer
ReadAt(f, pos, n) ==
    [i \in 1..n |->
        IF pos - HEADER_SIZE + i <= Len(f.body) THEN f.body[pos - HEADER_SIZE + i] ELSE Zero]

Max(x, y) == IF x >= y THEN x ELSE y

\* A write that ignores its position and appends at the end of the file
WriteAtAppend(f, pos, bytes) ==
    [f EXCEPT !.body = f.body \o bytes]

\* fs.writeSync(fd, bytes, 0, bytes.length, pos), pos >= HEADER_SIZE
WriteAt(f, pos, bytes) ==
    LET at == pos - HEADER_SIZE
        n  == Max(Len(f.body), at + Len(bytes))
    IN  [f EXCEPT !.body =
            [i \in 1..n |->
                IF i > at /\ i <= at + Len(bytes) THEN bytes[i - at]
                ELSE IF i <= Len(f.body) THEN f.body[i]
                ELSE Zero]]

\* fs.writeSync(fd, header, 0, HEADER_SIZE, 0)
WriteHeader(f, hdr) == [f EXCEPT !.hdr = hdr]

\* ------------------------------------------------------------ engine
\* nextLastModified() that accepts a clock equal to the cached value
nextLastModifiedAtLeast(now, lastModified) ==
    IF now >= lastModified THEN now ELSE lastModified + 1

\* nextLastModified() without its fallback: the clock alone
nextLastModifiedClock(now, lastModified) == now

\* nextLastModified(): now is Date.now()
nextLastModified(now, lastModified) ==
    IF now > lastModified THEN now ELSE lastModified + 1

\* The constructor's field initialisers
DefaultCache ==
    [header |-> createDefaultHeader, index |-> <<>>,
     dataTail |-> HEADER_SIZE + createDefaultHeader.dataSize,
     lastModified |-> createDefaultHeader.lastModified]

\* buildHeaderAndIndex(fd) looking for the index at the start of the data
\* region
buildHeaderAndIndexAtData(c, f) ==
    LET nextHeader    == f.hdr
        dataSize      == nextHeader.dataSize
        indexSize     == nextHeader.indexSize
        indexLocation == HEADER_SIZE
        indexBytes    == ReadAt(f, indexLocation, indexSize)
    IN  IF indexLocation + indexSize > FileSize(f)
        THEN [err |-> "truncated", cache |-> c]
        ELSE IF ~IsIndexBytes(indexBytes)
        THEN [err |-> "index", cache |-> c]
        ELSE [err |-> "",
              cache |-> [header |-> nextHeader, index |-> decodeIndex(indexBytes),
                         dataTail |-> HEADER_SIZE + dataSize,
                         lastModified |-> nextHeader.lastModified]]

\* buildHeaderAndIndex(fd) that leaves dataTail as it was
buildHeaderAndIndexKeepTail(c, f) ==
    LET nextHeader    == f.hdr
        indexLocation == HEADER_SIZE + nextHeader.dataSize
        indexBytes    == ReadAt(f, indexLocation, nextHeader.indexSize)
    IN  IF indexLocation + nextHeader.indexSize > FileSize(f)
        THEN [err |-> "truncated", cache |-> c]
        ELSE IF ~IsIndexBytes(indexBytes)
        THEN [err |-> "index", cache |-> c]
        ELSE [err |-> "",
              cache |-> [header |-> nextHeader, index |-> decodeIndex(indexBytes),
                         dataTail |-> c.dataTail,
                         lastModified |-> nextHeader.lastModified]]

\* buildHeaderAndIndex(fd): the handle's image re-read from the file, or the
\* error thrown before any field is assigned
buildHeaderAndIndex(c, f) ==
    LET nextHeader    == f.hdr
        dataSize      == nextHeader.dataSize
        indexSize     == nextHeader.indexSize
        indexLocation == HEADER_SIZE + dataSize
        indexBytes    == ReadAt(f, indexLocation, indexSize)
    IN  IF indexLocation + indexSize > FileSize(f)
        THEN [err |-> "truncated", cache |-> c]
        ELSE IF ~IsIndexBytes(indexBytes)
        THEN [err |-> "index", cache |-> c]
        ELSE [err |-> "",
              cache |-> [header |-> nextHeader, index |-> decodeIndex(indexBytes),
                         dataTail |-> indexLocation,
                         lastModified |-> nextHeader.lastModified]]

\* performTransaction writing the value at the start of the data region
TxWritesAtStart(t) ==
    (IF t.operation = "write"
     THEN <<[hdr |-> FALSE, pos |-> HEADER_SIZE, bytes |-> t.data]>>
     ELSE <<>>)
    \o <<[hdr |-> TRUE, pos |-> 0, bytes |-> <<>>],
         [hdr |-> FALSE, pos |-> t.dataOffset, bytes |-> t.index]>>

\* The positional writes of performTransaction, in program order
TxWrites(t) ==
    (IF t.operation = "write"
     THEN <<[hdr |-> FALSE, pos |-> t.dataOffset - Len(t.data), bytes |-> t.data]>>
     ELSE <<>>)
    \o <<[hdr |-> TRUE, pos |-> 0, bytes |-> <<>>],
         [hdr |-> FALSE, pos |-> t.dataOffset, bytes |-> t.index]>>

RECURSIVE ApplyWrites(_, _, _, _)
\* The file after the first n writes of transaction t (a kill between two
\* writeSync calls leaves such a prefix)
ApplyWrites(f, t, ws, n) ==
    IF n = 0 THEN f
    ELSE LET g == ApplyWrites(f, t, ws, n - 1)
             w == ws[n]
         IN  IF w.hdr THEN WriteHeader(g, t.header) ELSE WriteAt(g, w.pos, w.bytes)

\* performTransaction(transaction, fd)
performTransaction(f, t) == ApplyWrites(f, t, TxWrites(t), Len(TxWrites(t)))

NoTx ==
    [key |-> "", operation |-> "", data |-> <<>>, index |-> <<>>,
     header |-> createDefaultHeader, dataOffset |-> 0]

NoJournal == [st |-> "none", tx |-> NoTx]

\* A commit that leaves the journal file in place
commitTransactionKeep(j) == j

\* commitTransaction(): unlinkSync(<db>.journal) when it exists
commitTransaction(j) == NoJournal

\* recoverWithFileDescriptor that unlinks the journal without replaying it
recoverWithoutReplay(f, j) ==
    IF j.st = "none" THEN [err |-> "enoent", file |-> f, journal |-> j]
    ELSE IF j.st = "corrupt" THEN [err |-> "journal", file |-> f, journal |-> j]
    ELSE [err |-> "", file |-> f, journal |-> NoJournal]

\* recoverWithFileDescriptor(fd, journalPath): readFileSync, decode,
\* performTransaction, commitTransaction.  j.st is "none" (no such file),
\* "corrupt" (bytes that do not decode) or "ok".
recoverWithFileDescriptor(f, j) ==
    IF j.st = "none" THEN [err |-> "enoent", file |-> f, journal |-> j]
    ELSE IF j.st = "corrupt" THEN [err |-> "journal", file |-> f, journal |-> j]
    ELSE [err |-> "", file |-> performTransaction(f, j.tx), journal |-> commitTransaction(j)]

\* sync that never compares last_modified: the handle keeps its image
syncKeepImage(c, f, j, recoverIfJournal) ==
    LET replay == recoverIfJournal /\ j.st # "none"
        r == IF replay THEN recoverWithFileDescriptor(f, j)
             ELSE [err |-> "", file |-> f, journal |-> j]
    IN  [err |-> r.err, file |-> r.file, journal |-> r.journal, cache |-> c,
         rec |-> replay /\ r.err = ""]

\* sync that stamps the file's header each time it runs
syncTouch(c, f, j, recoverIfJournal) ==
    LET replay == recoverIfJournal /\ j.st # "none"
        r == IF replay THEN recoverWithFileDescriptor(f, j)
             ELSE [err |-> "", file |-> f, journal |-> j]
        b == IF r.file.hdr.lastModified # c.lastModified
             THEN buildHeaderAndIndex(c, r.file)
             ELSE [err |-> "", cache |-> c]
        g == WriteHeader(r.file, [r.file.hdr EXCEPT !.lastModified = @ + 1])
    IN  IF r.err # ""
        THEN [err |-> r.err, file |-> r.file, journal |-> r.journal, cache |-> c, rec |-> FALSE]
        ELSE [err |-> b.err, file |-> g, journal |-> r.journal, cache |-> b.cache,
              rec |-> replay]

\* sync(fd, recoverIfJournal)
sync(c, f, j, recoverIfJournal) ==
    LET replay == recoverIfJournal /\ j.st # "none"
        r == IF replay THEN recoverWithFileDescriptor(f, j)
             ELSE [err |-> "", file |-> f, journal |-> j]
        b == IF r.file.hdr.lastModified # c.lastModified
             THEN buildHeaderAndIndex(c, r.file)
             ELSE [err |-> "", cache |-> c]
    IN  IF r.err # ""
        THEN [err |-> r.err, file |-> r.file, journal |-> r.journal, cache |-> c, rec |-> FALSE]
        ELSE [err |-> b.err, file |-> r.file, journal |-> r.journal, cache |-> b.cache,
              rec |-> replay]

\* write(key, value) advancing dataTail before it records the entry
writePrepareTailFirst(c, key, value, now) ==
    LET serialized   == encode(value)
        dataTail     == c.dataTail + Len(serialized)
        index        == IndexSet(c.index, key, dataTail, Len(serialized))
        indexBytes   == encodeIndex(index)
        lastModified == nextLastModified(now, c.lastModified)
        header       == [c.header EXCEPT !.lastModified = lastModified,
                                         !.indexSize = Len(indexBytes),
                                         !.dataSize = dataTail - HEADER_SIZE]
    IN  [cache |-> [header |-> header, index |-> index, dataTail |-> dataTail,
                    lastModified |-> lastModified],
         tx |-> [key |-> key, operation |-> "write", data |-> serialized,
                 index |-> indexBytes, header |-> header, dataOffset |-> dataTail]]

\* write(key, value) recording the entry one byte before dataTail when the
\* data region is not empty
writePrepareOverlap(c, key, value, now) ==
    LET serialized   == encode(value)
        offset       == IF c.dataTail > HEADER_SIZE THEN c.dataTail - 1 ELSE c.dataTail
        index        == IndexSet(c.index, key, offset, Len(serialized))
        indexBytes   == encodeIndex(index)
        lastModified == nextLastModified(now, c.lastModified)
        dataTail     == c.dataTail + Len(serialized)
        header       == [c.header EXCEPT !.lastModified = lastModified,
                                         !.indexSize = Len(indexBytes),
                                         !.dataSize = dataTail - HEADER_SIZE]
    IN  [cache |-> [header |-> header, index |-> index, dataTail |-> dataTail,
                    lastModified |-> lastModified],
         tx |-> [key |-> key, operation |-> "write", data |-> serialized,
                 index |-> indexBytes, header |-> header, dataOffset |-> dataTail]]

\* write(key, value) between sync and beginTransaction
writePrepare(c, key, value, now) ==
    LET serialized   == encode(value)
        index        == IndexSet(c.index, key, c.dataTail, Len(serialized))
        indexBytes   == encodeIndex(index)
        lastModified == nextLastModified(now, c.lastModified)
        dataTail     == c.dataTail + Len(serialized)
        header       == [c.header EXCEPT !.lastModified = lastModified,
                                         !.indexSize = Len(indexBytes),
                                         !.dataSize = dataTail - HEADER_SIZE]
    IN  [cache |-> [header |-> header, index |-> index, dataTail |-> dataTail,
                    lastModified |-> lastModified],
         tx |-> [key |-> key, operation |-> "write", data |-> serialized,
                 index |-> indexBytes, header |-> header, dataOffset |-> dataTail]]

\* A delete that commits nothing new for a key the index does not hold
deletePrepareSkipAbsent(c, key, now) ==
    LET index      == IndexDelete(c.index, key)
        indexBytes == encodeIndex(index)
        lastModified == IF IndexHas(c.index, key)
                        THEN nextLastModified(now, c.lastModified)
                        ELSE c.lastModified
        header     == [c.header EXCEPT !.indexSize = Len(indexBytes),
                                       !.lastModified = lastModified,
                                       !.dataSize = c.dataTail - HEADER_SIZE]
    IN  [cache |-> [header |-> header, index |-> index, dataTail |-> c.dataTail,
                    lastModified |-> lastModified],
         tx |-> [key |-> key, operation |-> "delete", data |-> <<>>,
                 index |-> indexBytes, header |-> header, dataOffset |-> c.dataTail]]

\* delete(key) between sync and beginTransaction
deletePrepare(c, key, now) ==
    LET index        == IndexDelete(c.index, key)
        indexBytes   == encodeIndex(index)
        lastModified == nextLastModified(now, c.lastModified)
        header       == [c.header EXCEPT !.indexSize = Len(indexBytes),
                                         !.lastModified = lastModified,
                                         !.dataSize = c.dataTail - HEADER_SIZE]
    IN  [cache |-> [header |-> header, index |-> index, dataTail |-> c.dataTail,
                    lastModified |-> lastModified],
         tx |-> [key |-> key, operation |-> "delete", data |-> <<>>,
                 index |-> indexBytes, header |-> header, dataOffset |-> c.dataTail]]

RECURSIVE vacuumCopyKeepOffsets(_, _, _)
\* vacuum()'s copy loop recording each entry at its old offset
vacuumCopyKeepOffsets(f, index, n) ==
    IF n = 0 THEN [data |-> <<>>, newIndex |-> <<>>, newDataOffset |-> HEADER_SIZE]
    ELSE LET p == vacuumCopyKeepOffsets(f, index, n - 1)
             e == index[n]
         IN  [data |-> p.data \o ReadAt(f, e.offset, e.size),
              newIndex |-> IndexSet(p.newIndex, e.key, e.offset, e.size),
              newDataOffset |-> p.newDataOffset + e.size]

RECURSIVE vacuumCopyFromNewOffset(_, _, _)
\* vacuum()'s copy loop reading each value at its new offset
vacuumCopyFromNewOffset(f, index, n) ==
    IF n = 0 THEN [data |-> <<>>, newIndex |-> <<>>, newDataOffset |-> HEADER_SIZE]
    ELSE LET p == vacuumCopyFromNewOffset(f, index, n - 1)
             e == index[n]
         IN  [data |-> p.data \o ReadAt(f, p.newDataOffset, e.size),
              newIndex |-> IndexSet(p.newIndex, e.key, p.newDataOffset, e.size),
              newDataOffset |-> p.newDataOffset + e.size]

RECURSIVE vacuumCopyPadded(_, _, _)
\* vacuum()'s copy loop leaving one unused byte after each value
vacuumCopyPadded(f, index, n) ==
    IF n = 0 THEN [data |-> <<>>, newIndex |-> <<>>, newDataOffset |-> HEADER_SIZE]
    ELSE LET p == vacuumCopyPadded(f, index, n - 1)
             e == index[n]
         IN  [data |-> p.data \o ReadAt(f, e.offset, e.size) \o <<Zero>>,
              newIndex |-> IndexSet(p.newIndex, e.key, p.newDataOffset, e.size),
              newDataOffset |-> p.newDataOffset + e.size + 1]

RECURSIVE vacuumCopy(_, _, _)
\* vacuum()'s copy loop over the first n entries: the temp file's data
\* region, the new index and the new data offset
vacuumCopy(f, index, n) ==
    IF n = 0 THEN [data |-> <<>>, newIndex |-> <<>>, newDataOffset |-> HEADER_SIZE]
    ELSE LET p == vacuumCopy(f, index, n - 1)
             e == index[n]
         IN  [data |-> p.data \o ReadAt(f, e.offset, e.size),
              newIndex |-> IndexSet(p.newIndex, e.key, p.newDataOffset, e.size),
              newDataOffset |-> p.newDataOffset + e.size]

\* vacuum() that never stamps last_vacuum
vacuumBuildNoStamp(c, f, now) ==
    LET p          == vacuumCopy(f, c.index, Len(c.index))
        indexBytes == encodeIndex(p.newIndex)
        stamp      == nextLastModified(now, c.lastModified)
        newHeader  == [createDefaultHeader EXCEPT
                          !.indexSize = Len(indexBytes),
                          !.dataSize = p.newDataOffset - HEADER_SIZE,
                          !.lastModified = stamp]
    IN  [temp |-> [hdr |-> newHeader, body |-> p.data \o indexBytes],
         cache |-> [header |-> newHeader, index |-> p.newIndex,
                    dataTail |-> p.newDataOffset, lastModified |-> stamp]]

\* vacuum() from createDefaultHeader to closeSync(tempFd)
vacuumBuild(c, f, now) ==
    LET p          == vacuumCopy(f, c.index, Len(c.index))
        indexBytes == encodeIndex(p.newIndex)
        stamp      == nextLastModified(now, c.lastModified)
        newHeader  == [createDefaultHeader EXCEPT
                          !.indexSize = Len(indexBytes),
                          !.dataSize = p.newDataOffset - HEADER_SIZE,
                          !.lastModified = stamp,
                          !.lastVacuum = stamp]
    IN  [temp |-> [hdr |-> newHeader, body |-> p.data \o indexBytes],
         cache |-> [header |-> newHeader, index |-> p.newIndex,
                    dataTail |-> p.newDataOffset, lastModified |-> stamp]]

\* vacuum()'s finally block that leaves the temp file behind
vacuumFinallyKeepTemp(t) == t

\* vacuum()'s finally block, run to its end: <db>.temp is unlinked if it exists
vacuumFinally(t) == <<>>

\* validateKey that accepts every key
validateKeyAny(key) == TRUE

\* validateKey(key), for keys that are strings
validateKey(key) == key # ""

\* read(key) after sync: the index lookup, readSync and decode
readValue(c, f, key) ==
    IF ~IndexHas(c.index, key) THEN Null
    ELSE LET e == IndexGet(c.index, key) IN decode(ReadAt(f, e.offset, e.size))

\* The array index a property key is, by the rules of the language for the
\* own keys of an object: a canonical numeric string, -1 for any other key
ArrayIndex(key) == IF key = "1" THEN 1 ELSE IF key = "2" THEN 2 ELSE -1

RECURSIVE Ascending(_)
\* The array-index keys of set S in ascending numeric order
Ascending(S) ==
    IF S = {} THEN <<>>
    ELSE LET k == CHOOSE x \in S : \A y \in S : ArrayIndex(x) <= ArrayIndex(y)
         IN  <<k>> \o Ascending(S \ {k})

\* The own keys of `data` after data[key] = ... for each key of ks in
\* order, as JSON.stringify lists them: array indices first, ascending, then
\* the other strings in the order they were added.  "__proto__" with a
\* number assigned reaches the setter of Object.prototype and adds no key.
OwnKeys(ks) ==
    Ascending({ks[i] : i \in {j \in 1..Len(ks) : ArrayIndex(ks[j]) >= 0}})
    \o SelectSeq(ks, LAMBDA k : ArrayIndex(k) < 0 /\ k # "__proto__")

\* dump() after sync: meta from the header, data[key] = decode(bytes) for
\* each index entry, JSON.stringify({ meta, data })
dump(c, f) ==
    LET ks == OwnKeys(IndexKeys(c.index))
    IN  [meta |-> [version |-> c.header.version, data_size |-> c.header.dataSize,
                   index_size |-> c.header.indexSize,
                   last_vacuum |-> c.header.lastVacuum],
         keys |-> ks,
         data |-> [i \in 1..Len(ks) |-> readValue(c, f, ks[i])]]

\* ------------------------------------------------------------- state
VARIABLES
    path,      \* the inode the db path names
    inodes,    \* inode -> file: the path's file and files still held open
    journal,   \* <db>.journal
    temp,      \* <db>.temp: << >> or <<file>>
    pc,        \* each handle's position
    fd,        \* the inode of the descriptor a handle has open, or NoFd
    held,      \* "ex" while a handle holds flock(fd, 'ex') across steps
    arg,       \* the running operation and its arguments
    tx,        \* the Transaction a write or delete has built
    vac,       \* vacuum's newHeader, newIndex, newDataOffset and stamp
    cache,     \* this.header, this.index, this.dataTail, this.lastModified
    last,      \* the operation that completed in the last step, with its result
    model,     \* the key-value pairs of the journalled operations, in Map order,
               \* each with the handle that wrote it
    nops       \* mutating operations started

vars == <<path, inodes, journal, temp, pc, fd, held, arg, tx, vac, cache, last, model, nops>>

NoArg == [op |-> "", key |-> "", val |-> 0, rec |-> FALSE]
NoRes == [h |-> "", op |-> "", key |-> "", val |-> 0, err |-> "", ks |-> <<>>, rec |-> FALSE]

Result(h, a, val, ks, err, rec) ==
    [h |-> h, op |-> a.op, key |-> a.key, val |-> val, err |-> err, ks |-> ks,
     rec |-> a.rec \/ rec]

\* Files no path names and no descriptor holds are gone
Gc(ino, p, fds) ==
    [i \in ({p} \cup {fds[h] : h \in Handles}) \cap DOMAIN ino |-> ino[i]]

NewInode(ino) == CHOOSE i \in 0..Cardinality(DOMAIN ino) : i \notin DOMAIN ino

\* flock(fd, 'ex') returns: nobody else holds a lock on the same file
LockFree(h) == \A g \in Handles \ {h} : ~(held[g] # "none" /\ fd[g] = fd[h])

ExpectSet(m, key, val, h) ==
    LET e == [key |-> key, val |-> val, by |-> h]
    IN  IF \E i \in 1..Len(m) : m[i].key = key
        THEN [i \in 1..Len(m) |-> IF m[i].key = key THEN e ELSE m[i]]
        ELSE Append(m, e)

ExpectDelete(m, key) == SelectSeq(m, LAMBDA e : e.key # key)

Expect(key) ==
    IF \E i \in 1..Len(model) : model[i].key = key
    THEN model[CHOOSE i \in 1..Len(model) : model[i].key = key].val
    ELSE Null

ExpectKeys == [i \in 1..Len(model) |-> model[i].key]

\* The state after `new JSONBLite(path)` on a fresh path by every handle:
\* initializeFile() wrote DEFAULT_FILE_CONTENT
Init ==
    /\ path = 0
    /\ inodes = [i \in {0} |-> DEFAULT_FILE_CONTENT]
    /\ journal = NoJournal
    /\ temp = <<>>
    /\ pc = [h \in Handles |-> "idle"]
    /\ fd = [h \in Handles |-> NoFd]
    /\ held = [h \in Handles |-> "none"]
    /\ arg = [h \in Handles |-> NoArg]
    /\ tx = [h \in Handles |-> NoTx]
    /\ vac = [h \in Handles |-> DefaultCache]
    /\ cache = [h \in Handles |-> buildHeaderAndIndex(DefaultCache, DEFAULT_FILE_CONTENT).cache]
    /\ last = NoRes
    /\ model = <<>>
    /\ nops = 0

\* The operation returns or throws: finally { unlock(fd); closeSync(fd) }
Return(h, ino, p, res) ==
    /\ pc' = [pc EXCEPT ![h] = "idle"]
    /\ fd' = [fd EXCEPT ![h] = NoFd]
    /\ held' = [held EXCEPT ![h] = "none"]
    /\ arg' = [arg EXCEPT ![h] = NoArg]
    /\ tx' = [tx EXCEPT ![h] = NoTx]
    /\ vac' = [vac EXCEPT ![h] = DefaultCache]
    /\ inodes' = Gc(ino, p, fd')
    /\ last' = res

\* ------------------------------------------------------ write, delete
\* write(key, value) / delete(key): validateKey and openSync(filename, 'r+')
StartWrite(h) ==
    /\ pc[h] = "idle"
    /\ nops < MaxOps
    /\ arg' = [arg EXCEPT ![h] = [NoArg EXCEPT !.op = "write"]]
    /\ pc' = [pc EXCEPT ![h] = "w_lock"]
    /\ fd' = [fd EXCEPT ![h] = path]
    /\ nops' = nops + 1
    /\ last' = NoRes
    /\ UNCHANGED <<path, inodes, journal, temp, held, tx, vac, cache, model>>

StartDelete(h) ==
    /\ pc[h] = "idle"
    /\ nops < MaxOps
    /\ arg' = [arg EXCEPT ![h] = [NoArg EXCEPT !.op = "delete"]]
    /\ pc' = [pc EXCEPT ![h] = "w_lock"]
    /\ fd' = [fd EXCEPT ![h] = path]
    /\ nops' = nops + 1
    /\ last' = NoRes
    /\ UNCHANGED <<path, inodes, journal, temp, held, tx, vac, cache, model>>

\* lock(fd); sync(fd, true); the in-memory update and the Transaction.  The
\* caller's key and value are first used here.
LockWrite(h) ==
    /\ pc[h] = "w_lock"
    /\ LockFree(h)
    /\ \E now \in 0..MaxClock, key \in {k \in KeyInputs : validateKey(k)}, value \in Values :
        LET a  == [arg[h] EXCEPT !.key = key,
                                 !.val = IF arg[h].op = "write" THEN value ELSE 0]
            s  == sync(cache[h], inodes[fd[h]], journal, TRUE)
            p  == IF a.op = "write"
                  THEN writePrepare(s.cache, a.key, a.val, now)
                  ELSE deletePrepare(s.cache, a.key, now)
            fs == [inodes EXCEPT ![fd[h]] = s.file]
        IN  /\ journal' = s.journal
            /\ IF s.err # ""
               THEN /\ Return(h, fs, path, Result(h, a, 0, <<>>, s.err, FALSE))
                    /\ UNCHANGED cache
               ELSE /\ pc' = [pc EXCEPT ![h] = "w_begin"]
                    /\ held' = [held EXCEPT ![h] = "ex"]
                    /\ arg' = [arg EXCEPT ![h] = [a EXCEPT !.rec = s.rec]]
                    /\ tx' = [tx EXCEPT ![h] = p.tx]
                    /\ cache' = [cache EXCEPT ![h] = p.cache]
                    /\ inodes' = fs
                    /\ last' = NoRes
                    /\ UNCHANGED <<fd, vac>>
    /\ UNCHANGED <<path, temp, model, nops>>

\* beginTransaction(transaction): writeFileSync(<db>.journal)
Begin(h) ==
    /\ pc[h] = "w_begin"
    /\ journal' = [st |-> "ok", tx |-> tx[h]]
    /\ model' = IF arg[h].op = "write"
                THEN ExpectSet(model, arg[h].key, arg[h].val, h)
                ELSE ExpectDelete(model, arg[h].key)
    /\ pc' = [pc EXCEPT ![h] = "w_apply"]
    /\ last' = NoRes
    /\ UNCHANGED <<path, inodes, temp, fd, held, arg, tx, vac, cache, nops>>

\* beginTransaction throws before <db>.journal exists (writeFileSync fails
\* to create it): the finally block unlocks and closes, the fields write or
\* delete already assigned stay as they are
BeginFail(h) ==
    /\ pc[h] = "w_begin"
    /\ journal.st = "none"
    /\ Return(h, inodes, path, Result(h, arg[h], 0, <<>>, "io", FALSE))
    /\ UNCHANGED <<path, journal, temp, cache, model, nops>>

\* performTransaction(transaction, fd); commitTransaction(); unlock; close
Apply(h) ==
    /\ pc[h] = "w_apply"
    /\ journal' = commitTransaction(journal)
    /\ Return(h, [inodes EXCEPT ![fd[h]] = performTransaction(inodes[fd[h]], tx[h])],
              path, Result(h, arg[h], 0, <<>>, "", FALSE))
    /\ UNCHANGED <<path, temp, cache, model, nops>>

\* read(key), write(key, value), delete(key) with a key validateKey
\* refuses: the throw that precedes every file access
Reject(h) ==
    /\ pc[h] = "idle"
    /\ \E op \in {"read", "write", "delete"}, key \in KeyInputs :
          /\ ~validateKey(key)
          /\ last' = Result(h, [NoArg EXCEPT !.op = op, !.key = key], 0, <<>>,
                            "invalid_key", FALSE)
    /\ UNCHANGED <<path, inodes, journal, temp, pc, fd, held, arg, tx, vac, cache, model, nops>>

\* --------------------------------------------------------- read, keys
\* read(key) and keys() start alike: recover()'s existsSync(journalPath), then
\* recover()'s openSync(filename, 'r+') when a journal exists, else the
\* operation's own openSync(filename, 'r').  Which of the two it is, and the
\* key, are first used under the shared lock.
StartRead(h) ==
    /\ pc[h] = "idle"
    /\ arg' = [arg EXCEPT ![h] = [NoArg EXCEPT !.op = "read"]]
    /\ pc' = [pc EXCEPT ![h] = IF journal.st # "none" THEN "rec_lock" ELSE "r_lock"]
    /\ fd' = [fd EXCEPT ![h] = path]
    /\ last' = NoRes
    /\ UNCHANGED <<path, inodes, journal, temp, held, tx, vac, cache, model, nops>>

\* recover(): lock(fd); recoverWithFileDescriptor; buildHeaderAndIndex;
\* unlock; close
RecoverLock(h) ==
    /\ pc[h] = "rec_lock"
    /\ LockFree(h)
    /\ LET r  == recoverWithFileDescriptor(inodes[fd[h]], journal)
           b  == buildHeaderAndIndex(cache[h], r.file)
           fs == [inodes EXCEPT ![fd[h]] = r.file]
       IN  /\ journal' = r.journal
           /\ IF r.err # "" \/ b.err # ""
              THEN /\ Return(h, fs, path,
                             Result(h, arg[h], 0, <<>>, IF r.err # "" THEN r.err ELSE b.err, FALSE))
                   /\ UNCHANGED cache
              ELSE /\ pc' = [pc EXCEPT ![h] = "r_open"]
                   /\ fd' = [fd EXCEPT ![h] = NoFd]
                   /\ arg' = [arg EXCEPT ![h].rec = TRUE]
                   /\ cache' = [cache EXCEPT ![h] = b.cache]
                   /\ inodes' = Gc(fs, path, fd')
                   /\ last' = NoRes
                   /\ UNCHANGED <<held, tx, vac>>
    /\ UNCHANGED <<path, temp, model, nops>>

\* read/keys after recover() returned: openSync(filename, 'r')
ReadOpen(h) ==
    /\ pc[h] = "r_open"
    /\ fd' = [fd EXCEPT ![h] = path]
    /\ pc' = [pc EXCEPT ![h] = "r_lock"]
    /\ last' = NoRes
    /\ UNCHANGED <<path, inodes, journal, temp, held, arg, tx, vac, cache, model, nops>>

\* read/keys: sharedLock(fd); sync(fd); the result; unlock; close
ReadLock(h) ==
    /\ pc[h] = "r_lock"
    /\ \A g \in Handles \ {h} : ~(held[g] = "ex" /\ fd[g] = fd[h])
    /\ \E op \in {"read", "keys"} :
       \E key \in (IF op = "read" THEN {k \in KeyInputs : validateKey(k)} ELSE {""}) :
        LET a == [arg[h] EXCEPT !.op = op, !.key = key]
            f == inodes[fd[h]]
            s == sync(cache[h], f, journal, FALSE)
        IN  /\ cache' = [cache EXCEPT ![h] = s.cache]
            /\ journal' = s.journal
            /\ Return(h, [inodes EXCEPT ![fd[h]] = s.file], path,
                      IF s.err # "" THEN Result(h, a, 0, <<>>, s.err, FALSE)
                      ELSE IF op = "read"
                      THEN Result(h, a, readValue(s.cache, s.file, key), <<>>, "", FALSE)
                      ELSE Result(h, a, 0, IndexKeys(s.cache.index), "", FALSE))
    /\ UNCHANGED <<path, temp, model, nops>>

\* dump(): sharedLock(fd); sync(fd); the document; unlock; close
Dump(h) ==
    /\ pc[h] = "r_lock"
    /\ \A g \in Handles \ {h} : ~(held[g] = "ex" /\ fd[g] = fd[h])
    /\ LET a == [arg[h] EXCEPT !.op = "dump"]
           f == inodes[fd[h]]
           s == sync(cache[h], f, journal, FALSE)
       IN  /\ cache' = [cache EXCEPT ![h] = s.cache]
           /\ journal' = s.journal
           /\ Return(h, [inodes EXCEPT ![fd[h]] = s.file], path,
                     IF s.err # "" THEN Result(h, a, 0, <<>>, s.err, FALSE)
                     ELSE LET d == dump(s.cache, s.file)
                          IN  Result(h, a, [meta |-> d.meta, data |-> d.data], d.keys, "", FALSE))
    /\ UNCHANGED <<path, temp, model, nops>>

\* -------------------------------------------------------------- vacuum
\* vacuum(): openSync(filename, 'r+').  arg.val remembers the size the file
\* has at the call, for the caller's before-and-after comparison.
StartVacuum(h) ==
    /\ pc[h] = "idle"
    /\ nops < MaxOps
    /\ arg' = [arg EXCEPT ![h] = [NoArg EXCEPT !.op = "vacuum",
                                               !.val = FileSize(inodes[path])]]
    /\ pc' = [pc EXCEPT ![h] = "v_lock"]
    /\ fd' = [fd EXCEPT ![h] = path]
    /\ nops' = nops + 1
    /\ last' = NoRes
    /\ UNCHANGED <<path, inodes, journal, temp, held, tx, vac, cache, model>>

\* lock(fd); sync(fd, true); the temp file written, truncated, synced, closed.
\* When sync throws, the finally block unlinks whatever <db>.temp exists.
LockVacuum(h) ==
    /\ pc[h] = "v_lock"
    /\ LockFree(h)
    /\ \E now \in 0..MaxClock :
        LET s  == sync(cache[h], inodes[fd[h]], journal, TRUE)
            v  == vacuumBuild(s.cache, s.file, now)
            fs == [inodes EXCEPT ![fd[h]] = s.file]
        IN  /\ journal' = s.journal
            /\ IF s.err # ""
               THEN /\ Return(h, fs, path, Result(h, arg[h], 0, <<>>, s.err, FALSE))
                    /\ temp' = vacuumFinally(temp)
                    /\ UNCHANGED cache
               ELSE /\ pc' = [pc EXCEPT ![h] = "v_rename"]
                    /\ held' = [held EXCEPT ![h] = "ex"]
                    /\ arg' = [arg EXCEPT ![h].rec = s.rec]
                    /\ vac' = [vac EXCEPT ![h] = v.cache]
                    /\ cache' = [cache EXCEPT ![h] = s.cache]
                    /\ temp' = <<v.temp>>
                    /\ inodes' = fs
                    /\ last' = NoRes
                    /\ UNCHANGED <<fd, tx>>
    /\ UNCHANGED <<path, model, nops>>

\* statSync(tempFilename); renameSync(tempFilename, filename); the in-memory
\* image replaced; unlock; close.  With no temp file the rename throws.
Rename(h) ==
    /\ pc[h] = "v_rename"
    /\ IF temp # <<>>
       THEN LET n == NewInode(inodes)
            IN  /\ path' = n
                /\ cache' = [cache EXCEPT ![h] = vac[h]]
                /\ Return(h, [i \in DOMAIN inodes \cup {n} |->
                                 IF i = n THEN temp[1] ELSE inodes[i]],
                          n, Result(h, arg[h], arg[h].val, <<>>, "", FALSE))
                /\ temp' = vacuumFinally(<<>>)
       ELSE /\ Return(h, inodes, path, Result(h, arg[h], 0, <<>>, "enoent", FALSE))
            /\ temp' = vacuumFinally(temp)
            /\ UNCHANGED <<path, cache>>
    /\ UNCHANGED <<journal, model, nops>>

\* A step of vacuum's body throws (the temp file's open, a copy read or
\* write, the header or index write, ftruncate, fsync, or the rename): the
\* in-memory image is still the one sync left, and the finally block runs
VacuumFail(h) ==
    /\ pc[h] = "v_rename"
    /\ temp' = vacuumFinally(temp)
    /\ Return(h, inodes, path, Result(h, arg[h], 0, <<>>, "io", FALSE))
    /\ UNCHANGED <<path, journal, cache, model, nops>>

\* A step of vacuum's body throws and then closeSync(tempFd) or
\* unlinkSync(tempFilename) throws inside the finally block: unlock(fd) and
\* closeSync(fd) are never reached.  vacuum throws to its caller; the
\* descriptor stays open and locked until the process ends.
CleanupFail(h) ==
    /\ pc[h] = "v_rename"
    /\ pc' = [pc EXCEPT ![h] = "leak"]
    /\ arg' = [arg EXCEPT ![h] = NoArg]
    /\ vac' = [vac EXCEPT ![h] = DefaultCache]
    /\ last' = Result(h, arg[h], 0, <<>>, "cleanup", FALSE)
    /\ UNCHANGED <<path, inodes, journal, temp, fd, held, tx, cache, model, nops>>

\* ------------------------------------------------- constructor, discard
\* new JSONBLite(filename) on the existing file: openSync(filename, 'r+')
Open(h) ==
    /\ pc[h] = "closed"
    /\ arg' = [arg EXCEPT ![h] = [NoArg EXCEPT !.op = "open"]]
    /\ pc' = [pc EXCEPT ![h] = "c_lock"]
    /\ fd' = [fd EXCEPT ![h] = path]
    /\ last' = NoRes
    /\ UNCHANGED <<path, inodes, journal, temp, held, tx, vac, cache, model, nops>>

\* constructor: lock(fd); sync(fd, true); unlock; close.  A constructor that
\* throws yields no handle.
LockOpen(h) ==
    /\ pc[h] = "c_lock"
    /\ LockFree(h)
    /\ LET s == sync(cache[h], inodes[fd[h]], journal, TRUE)
       IN  /\ journal' = s.journal
           /\ cache' = [cache EXCEPT ![h] = s.cache]
           /\ fd' = [fd EXCEPT ![h] = NoFd]
           /\ pc' = [pc EXCEPT ![h] = IF s.err # "" THEN "closed" ELSE "idle"]
           /\ arg' = [arg EXCEPT ![h] = NoArg]
           /\ inodes' = Gc([inodes EXCEPT ![fd[h]] = s.file], path, fd')
           /\ last' = Result(h, arg[h], 0, <<>>, s.err, s.rec)
    /\ UNCHANGED <<path, temp, held, tx, vac, model, nops>>

\* The owner discards an idle handle
Close(h) ==
    /\ pc[h] = "idle"
    /\ pc' = [pc EXCEPT ![h] = "closed"]
    /\ cache' = [cache EXCEPT ![h] = DefaultCache]
    /\ last' = NoRes
    /\ UNCHANGED <<path, inodes, journal, temp, fd, held, arg, tx, vac, model, nops>>

\* --------------------------------------------------------------- kills
\* The handle's process dies: its descriptor is closed, its lock released
Dead(h, ino) ==
    /\ pc' = [pc EXCEPT ![h] = "closed"]
    /\ fd' = [fd EXCEPT ![h] = NoFd]
    /\ held' = [held EXCEPT ![h] = "none"]
    /\ arg' = [arg EXCEPT ![h] = NoArg]
    /\ tx' = [tx EXCEPT ![h] = NoTx]
    /\ vac' = [vac EXCEPT ![h] = DefaultCache]
    /\ cache' = [cache EXCEPT ![h] = DefaultCache]
    /\ inodes' = Gc(ino, path, fd')
    /\ last' = NoRes

\* Killed between two steps (before the journal is written, after it is
\* written and before the first apply write, before the rename, ...)
Kill(h) ==
    /\ pc[h] \notin {"idle", "closed"}
    /\ Dead(h, inodes)
    /\ UNCHANGED <<path, journal, temp, model, nops>>

\* Killed inside performTransaction after n of its writes, or after all of
\* them and before the journal is unlinked
KillApply(h) ==
    /\ pc[h] = "w_apply"
    /\ \E n \in 1..Len(TxWrites(tx[h])) :
          Dead(h, [inodes EXCEPT ![fd[h]] =
                      ApplyWrites(inodes[fd[h]], tx[h], TxWrites(tx[h]), n)])
    /\ UNCHANGED <<path, journal, temp, model, nops>>

\* Killed while replaying the journal, after n of its writes
KillRecover(h) ==
    /\ pc[h] \in {"w_lock", "v_lock", "c_lock", "rec_lock"}
    /\ LockFree(h)
    /\ journal.st = "ok"
    /\ \E n \in 1..Len(TxWrites(journal.tx)) :
          Dead(h, [inodes EXCEPT ![fd[h]] =
                      ApplyWrites(inodes[fd[h]], journal.tx, TxWrites(journal.tx), n)])
    /\ UNCHANGED <<path, journal, temp, model, nops>>

\* Killed inside writeFileSync(<db>.journal): the file is created or
\* truncated and holds a prefix of the encoded transaction
KillBegin(h) ==
    /\ pc[h] = "w_begin"
    /\ journal' = [st |-> "corrupt", tx |-> NoTx]
    /\ Dead(h, inodes)
    /\ UNCHANGED <<path, temp, model, nops>>

\* ------------------------------------------------------ specifications
Op(h) ==
    \/ StartWrite(h) \/ StartDelete(h) \/ LockWrite(h) \/ Begin(h) \/ Apply(h)
    \/ StartRead(h) \/ RecoverLock(h) \/ ReadOpen(h) \/ ReadLock(h)
    \/ StartVacuum(h) \/ LockVacuum(h) \/ Rename(h)
    \/ Open(h) \/ LockOpen(h) \/ Close(h)

Crash(h) == Kill(h) \/ KillApply(h) \/ KillRecover(h)

\* No other handle is inside an operation
Quiet(h) == \A g \in Handles \ {h} : pc[g] \in {"idle", "closed"}

\* Any number of handles in separate processes, their steps interleaved,
\* any of them killed at any point.  A call refused for its key touches
\* nothing another handle can see; single-handle runs have their own
\* specification with such calls.
Next == \E h \in Handles : Op(h) \/ Crash(h) \/ KillBegin(h)

Spec == Init /\ [][Next]_vars

\* Operations that do not overlap: a handle starts one only when no other
\* handle is inside one.  A process may be killed once its journal is whole.
NextSeq == \E h \in Handles : Quiet(h) /\ (Op(h) \/ Crash(h))

SpecSeq == Init /\ [][NextSeq]_vars

\* Non-overlapping operations on a database that handle A filled before:
\* write("a", 1) then write("b", 1), handle B not used since it was opened
LoadedFirst == writePrepare(buildHeaderAndIndex(DefaultCache, DEFAULT_FILE_CONTENT).cache, "a", 1, 0)

LoadedSecond == writePrepare(LoadedFirst.cache, "b", 1, 0)

LoadedFile ==
    performTransaction(performTransaction(DEFAULT_FILE_CONTENT, LoadedFirst.tx),
                       LoadedSecond.tx)

InitLoaded ==
    /\ path = 0
    /\ inodes = [i \in {0} |-> LoadedFile]
    /\ journal = NoJournal
    /\ temp = <<>>
    /\ pc = [h \in Handles |-> "idle"]
    /\ fd = [h \in Handles |-> NoFd]
    /\ held = [h \in Handles |-> "none"]
    /\ arg = [h \in Handles |-> NoArg]
    /\ tx = [h \in Handles |-> NoTx]
    /\ vac = [h \in Handles |-> DefaultCache]
    /\ cache = [h \in Handles |-> IF h = "A" THEN LoadedSecond.cache ELSE buildHeaderAndIndex(DefaultCache, DEFAULT_FILE_CONTENT).cache]
    /\ last = NoRes
    /\ model = ExpectSet(ExpectSet(<<>>, "a", 1, "A"), "b", 1, "A")
    /\ nops = 0

SpecLoaded == InitLoaded /\ [][NextSeq]_vars

\* Non-overlapping operations with I/O errors injected into vacuum
NextFaults ==
    \/ NextSeq
    \/ \E h \in Handles : Quiet(h) /\ VacuumFail(h)
    \/ \E h \in Handles : Quiet(h) /\ CleanupFail(h)

SpecFaults == Init /\ [][NextFaults]_vars

\* The constructor run on a file it did not write: any header and any body
\* of up to MaxBody cells, the handle then used for reads
ImageCells ==
    {Zero, encode(1)[1],
     [t |-> "m", k |-> "", a |-> 0, b |-> 0], [t |-> "m", k |-> "", a |-> 1, b |-> 0],
     [t |-> "e", k |-> "a", a |-> HEADER_SIZE, b |-> 1]}

ImageHeaders ==
    [magic : {createDefaultHeader.magic, "jsonblitx"},
     version : {HEADER_VERSION, HEADER_VERSION + 1},
     indexSize : 0..MaxBody, dataSize : 0..(MaxBody - 1),
     lastModified : {0, 1}, lastVacuum : {0}]

FileImages ==
    [hdr : ImageHeaders,
     body : UNION {[1..n -> ImageCells] : n \in 0..MaxBody}]

InitOpen ==
    /\ path = 0
    /\ inodes \in [{0} -> FileImages]
    /\ journal = NoJournal
    /\ temp = <<>>
    /\ pc = [h \in Handles |-> "closed"]
    /\ fd = [h \in Handles |-> NoFd]
    /\ held = [h \in Handles |-> "none"]
    /\ arg = [h \in Handles |-> NoArg]
    /\ tx = [h \in Handles |-> NoTx]
    /\ vac = [h \in Handles |-> DefaultCache]
    /\ cache = [h \in Handles |-> DefaultCache]
    /\ last = NoRes
    /\ model = <<>>
    /\ nops = 0

NextOpen ==
    \/ Open("A") \/ LockOpen("A") \/ Close("A")
    \/ StartRead("A") \/ ReadLock("A")

SpecOpen == InitOpen /\ [][NextOpen]_vars

\* Non-overlapping operations where the journal write of a write or a
\* delete may fail
NextJournalFail ==
    \/ NextSeq
    \/ \E h \in Handles : Quiet(h) /\ BeginFail(h)

SpecJournalFail == Init /\ [][NextJournalFail]_vars

\* Progress: any number of handles, their steps interleaved, any of them
\* killed at any point, dump among the operations.  A handle inside an
\* operation keeps running, and flock grants a lock that is free again and
\* again to each waiter in the end (strong fairness of the handle's steps);
\* nothing obliges a caller to start an operation or a process to die.
Progress(h) ==
    \/ LockWrite(h) \/ Begin(h) \/ Apply(h)
    \/ RecoverLock(h) \/ ReadOpen(h) \/ ReadLock(h) \/ Dump(h)
    \/ LockVacuum(h) \/ Rename(h) \/ VacuumFail(h) \/ CleanupFail(h)
    \/ LockOpen(h)

NextLive ==
    /\ \/ Next
       \/ \E h \in Handles : Dump(h)
    /\ nops' <= MaxLive

\* Progress(h) can be taken: every lock step needs nothing but its flock()
\* to be grantable, every other step only its place in the handler
Granted(h) ==
    \/ pc[h] \in {"w_lock", "v_lock", "c_lock", "rec_lock"} /\ LockFree(h)
    \/ pc[h] = "r_lock" /\ \A g \in Handles \ {h} : ~(held[g] = "ex" /\ fd[g] = fd[h])
    \/ pc[h] \in {"w_begin", "w_apply", "r_open", "v_rename"}

\* Progress(h) seen from pc and last alone: the handle leaves its place in
\* the handler, and not by the death of its process (Dead leaves no result)
Runs(h) ==
    /\ Granted(h)
    /\ \/ \E p \in {"idle", "w_begin", "w_apply", "r_open", "r_lock", "v_rename", "leak"} \ {pc[h]} :
             pc' = [pc EXCEPT ![h] = p]
       \/ pc' = [pc EXCEPT ![h] = "closed"] /\ last' # NoRes

\* Runs(h) and Progress(h) are the same steps
RunsIsProgress == [][\A h \in Handles : <<Runs(h)>>_pc <=> <<Progress(h)>>_vars]_vars

\* Every process keeps running its synchronous handler and flock() is granted
\* fairly: strong fairness of each handle's steps.  A killed process takes no
\* further step and its locks are gone with its descriptors (Dead).
SpecLive == Init /\ [][NextLive]_vars /\ \A h \in Handles : SF_pc(Runs(h))

\* The same runs, with a vacuum whose body throws and one whose cleanup in
\* the finally block throws
NextLiveFaults ==
    /\ \/ Next
       \/ \E h \in Handles : Dump(h)
       \/ \E h \in Handles : VacuumFail(h)
       \/ \E h \in Handles : CleanupFail(h)
    /\ nops' <= MaxLive

SpecLiveFaults == Init /\ [][NextLiveFaults]_vars /\ \A h \in Handles : SF_pc(Runs(h))

\* <db>.temp when vacuum() is cut after the copy loop has copied n values:
\* the placeholder header and the values, no index
vacuumTorn(c, f, n) ==
    [hdr |-> createDefaultHeader, body |-> vacuumCopy(f, c.index, n).data]

\* A vacuum that compacts the live file in place, killed inside its copy loop
KillCopyInPlace(h) ==
    /\ pc[h] = "v_rename"
    /\ \E n \in 0..Len(cache[h].index) :
          Dead(h, [inodes EXCEPT ![fd[h]] = vacuumTorn(cache[h], inodes[fd[h]], n)])
    /\ temp' = <<>>
    /\ UNCHANGED <<path, journal, model, nops>>

\* The process is killed inside vacuum() between openSync(tempFilename, 'w')
\* and closeSync(tempFd): <db>.temp stays behind, cut after n copied values
KillCopy(h) ==
    /\ pc[h] = "v_rename"
    /\ \E n \in 0..Len(cache[h].index) :
          temp' = <<vacuumTorn(cache[h], inodes[fd[h]], n)>>
    /\ Dead(h, inodes)
    /\ UNCHANGED <<path, journal, model, nops>>

\* Non-overlapping operations, every kill of a vacuum among them
NextVacuumKill ==
    \/ NextSeq
    \/ \E h \in Handles : Quiet(h) /\ KillCopy(h)

SpecVacuumKill == Init /\ [][NextVacuumKill]_vars

\* Non-overlapping operations, dump among them
NextReaders ==
    \/ NextSeq
    \/ \E h \in Handles : Quiet(h) /\ Dump(h)

SpecReaders == Init /\ [][NextReaders]_vars

\* dump() on either handle after handle A ran up to MaxDump writes and
\* deletes, the keys drawn from DumpKeys
DumpKeys == {"a", "1", "2", "__proto__"}

DumpOps ==
    [op : {"write"}, key : DumpKeys, val : Values]
    \cup [op : {"delete"}, key : DumpKeys, val : {0}]

DumpHistories == UNION {[1..n -> DumpOps] : n \in 0..MaxDump}

RECURSIVE Replayed(_, _)
\* File, handle image and expected content after the first n operations of
\* history hist, each one run to its return by handle A
Replayed(hist, n) ==
    IF n = 0
    THEN [file |-> DEFAULT_FILE_CONTENT,
          cache |-> buildHeaderAndIndex(DefaultCache, DEFAULT_FILE_CONTENT).cache,
          model |-> <<>>]
    ELSE LET prev == Replayed(hist, n - 1)
             o    == hist[n]
             p    == IF o.op = "write"
                     THEN writePrepare(prev.cache, o.key, o.val, 0)
                     ELSE deletePrepare(prev.cache, o.key, 0)
         IN  [file |-> performTransaction(prev.file, p.tx),
              cache |-> p.cache,
              model |-> IF o.op = "write"
                        THEN ExpectSet(prev.model, o.key, o.val, "A")
                        ELSE ExpectDelete(prev.model, o.key)]

InitDump ==
    \E hist \in DumpHistories :
        LET r == Replayed(hist, Len(hist))
        IN  /\ path = 0
            /\ inodes = [i \in {0} |-> r.file]
            /\ journal = NoJournal
            /\ temp = <<>>
            /\ pc = [h \in Handles |-> "idle"]
            /\ fd = [h \in Handles |-> NoFd]
            /\ held = [h \in Handles |-> "none"]
            /\ arg = [h \in Handles |-> NoArg]
            /\ tx = [h \in Handles |-> NoTx]
            /\ vac = [h \in Handles |-> DefaultCache]
            /\ cache = [h \in Handles |->
                          IF h = "A" THEN r.cache
                          ELSE buildHeaderAndIndex(DefaultCache, DEFAULT_FILE_CONTENT).cache]
            /\ last = NoRes
            /\ model = r.model
            /\ nops = Len(hist)

NextDump == \E h \in Handles : StartRead(h) \/ Dump(h)

SpecDump == InitDump /\ [][NextDump]_vars

\* One handle at a time on the path: the owner uses it, discards it or is
\* killed, and opens the next.  No journal is ever there when a read starts
\* (the constructor has replayed it), so recover() returns at once.
NextSingle ==
    \/ StartWrite("A") \/ StartDelete("A") \/ LockWrite("A") \/ Begin("A") \/ Apply("A")
    \/ StartRead("A") \/ ReadLock("A")
    \/ StartVacuum("A") \/ LockVacuum("A") \/ Rename("A")
    \/ Open("A") \/ LockOpen("A") \/ Close("A")
    \/ Crash("A")

SpecSingle == Init /\ [][NextSingle]_vars

\* The single handle, its callers also passing keys that validateKey refuses
NextKeys == NextSingle \/ Reject("A")

SpecKeys == Init /\ [][NextKeys]_vars

\* ---------------------------------------------------------- properties
Quiescent == \A h \in Handles : pc[h] \in {"idle", "closed"}

Mutations == {"write", "delete", "vacuum"}

\* The file the path names, and last_modified in its header
PathFile == inodes[path]

PathLm == PathFile.hdr.lastModified

\* What a fresh reader finds in the file the path names
Disk == buildHeaderAndIndex(DefaultCache, PathFile)

DiskRead(key) ==
    IF Disk.err # "" THEN Garbage ELSE readValue(Disk.cache, PathFile, key)

DiskMatchesModel ==
    /\ Disk.err = ""
    /\ IndexKeys(Disk.cache.index) = ExpectKeys
    /\ \A k \in Keys : DiskRead(k) = Expect(k)

\* What read(key) and keys() on handle h return when called in this state
ReadNow(h, key) ==
    LET s == sync(cache[h], PathFile, journal, FALSE)
    IN  IF s.err # "" THEN Garbage ELSE readValue(s.cache, PathFile, key)

KeysNow(h) == IndexKeys(sync(cache[h], PathFile, journal, FALSE).cache.index)

C2_Coherence ==
    /\ last.op = "read" => last.err = "" /\ last.val = Expect(last.key)
    /\ last.op = "keys" => last.err = "" /\ last.ks = ExpectKeys

C2_Witness ==
    /\ last.op = "read" /\ last.err = "" /\ last.val # Null
    /\ \E i \in 1..Len(model) : model[i].key = last.key /\ model[i].by # last.h
    /\ pc[CHOOSE h \in Handles : h # last.h] = "idle"

\* C3: a handle opened on the path after the previous owner is gone reads,
\* for every key, the value last written and not deleted, null for the
\* others, and lists the live keys.
C3_Roundtrip ==
    last.op = "open" =>
        /\ last.err = ""
        /\ \A k \in Keys : ReadNow(last.h, k) = Expect(k)
        /\ KeysNow(last.h) = ExpectKeys

C3_Witness ==
    /\ last.op = "open" /\ last.err = "" /\ ~last.rec
    /\ Len(model) = 1 /\ nops = MaxOps
    /\ ReadNow(last.h, model[1].key) = 2

\* C4: after a process is killed once its journal is whole, the next open
\* and the next mutating operation of any handle succeed, leave no journal,
\* and leave the file holding the whole journalled operation.
C4_RecoveryConverges ==
    last.op \in Mutations \cup {"open"} =>
        /\ last.err = ""
        /\ journal.st = "none"
        /\ DiskMatchesModel

C4_Witness ==
    /\ last.rec /\ last.err = ""
    /\ last.op \in Mutations \cup {"open"}
    /\ Len(model) > 0
    /\ DiskMatchesModel

\* C5: a journal that is truncated or does not decode is treated as absent:
\* the operation that finds it completes without an error.
C5_CorruptJournalIgnored ==
    last.op # "" /\ journal.st = "corrupt" => last.err = ""

\* C6: a read or a keys() that returns never exposes a partly applied
\* transaction: it neither fails on the file's own bytes nor returns bytes
\* that are no stored value.
C6_NoTornRead ==
    last.op \in {"read", "keys"} =>
        /\ last.err \notin {"truncated", "index"}
        /\ last.val # Garbage

\* C7: at most one handle is between taking the exclusive lock and releasing
\* it, also when a handle opened the file before a vacuum renamed it.
C7_MutualExclusion ==
    \A g, h \in Handles : g # h => ~(held[g] = "ex" /\ held[h] = "ex")

\* C8: last_modified in the file's header never decreases, and every
\* committed write, delete or vacuum leaves it strictly greater than it
\* was, whatever the clock returns.
C8_LastModifiedIncreases ==
    [][/\ PathLm' >= PathLm
       /\ (last'.op \in Mutations /\ last'.err = "") => PathLm' > PathLm]_vars

C8_Witness ==
    /\ last.op \in Mutations /\ last.err = ""
    /\ PathLm > MaxClock

\* C9: after any committed operation the file is exactly HEADER_SIZE +
\* data_size + index_size long, also after a delete that shrinks the index.
C9_FileSizeExact ==
    Quiescent /\ journal.st = "none" =>
        FileSize(PathFile) =
            HEADER_SIZE + PathFile.hdr.dataSize + PathFile.hdr.indexSize

\* C10: in every committed state the on-disk index decodes and each entry
\* (offset, size) lies inside the data region.
C10_IndexWithinBounds ==
    journal.st = "none" /\ (\A h \in Handles : ~(held[h] = "ex" /\ fd[h] = path)) =>
        /\ Disk.err = ""
        /\ \A i \in 1..Len(Disk.cache.index) :
              LET e == Disk.cache.index[i]
              IN  /\ e.offset >= HEADER_SIZE
                  /\ e.size > 0
                  /\ e.offset + e.size <= HEADER_SIZE + PathFile.hdr.dataSize

C10_Witness ==
    /\ journal.st = "none" /\ Quiescent
    /\ last.op = "vacuum" /\ last.err = ""
    /\ Len(Disk.cache.index) = 1
    /\ Disk.cache.index[1].offset = HEADER_SIZE
    /\ nops = MaxOps

\* Handles a caller can use right now
Idle == {h \in Handles : pc[h] = "idle"}

VacuumDone == last.op = "vacuum" /\ last.err = ""

RECURSIVE LiveBytes(_, _)
\* The bytes the first n index entries point at
LiveBytes(index, n) == IF n = 0 THEN 0 ELSE LiveBytes(index, n - 1) + index[n].size

\* The data region holds bytes no index entry points at
DeadBytes == Disk.err = "" /\ PathFile.hdr.dataSize > LiveBytes(Disk.cache.index, Len(Disk.cache.index))

\* C11: the step that completes a vacuum changes no read(k) and no keys(),
\* on the vacuuming handle, on every other open handle and for a handle
\* opened afterwards.
C11_VacuumPreserves ==
    [][VacuumDone' =>
          /\ \A k \in Keys : DiskRead(k)' = DiskRead(k)
          /\ IndexKeys(Disk.cache.index)' = IndexKeys(Disk.cache.index)
          /\ \A h \in Idle' :
                /\ \A k \in Keys : ReadNow(h, k)' = DiskRead(k)
                /\ KeysNow(h)' = IndexKeys(Disk.cache.index)]_vars

C11_Witness ==
    /\ VacuumDone
    /\ Idle = Handles
    /\ Len(model) = 1 /\ model[1].by # last.h
    /\ PathFile.hdr.dataSize < last.val - HEADER_SIZE - 2
    /\ DiskRead(model[1].key) = 2

\* C12 as stated: after a successful vacuum the file is no larger than it
\* was when vacuum was called, smaller when the data region held dead
\* bytes, and last_vacuum is strictly greater than it was.
C12_VacuumShrinksFromCall ==
    [][VacuumDone' =>
          /\ FileSize(PathFile)' <= last'.val
          /\ DeadBytes => FileSize(PathFile)' < last'.val
          /\ PathFile.hdr.lastVacuum' > PathFile.hdr.lastVacuum]_vars

\* C12 amended: after a successful vacuum the file is no larger than it was
\* when the copy began, that is after vacuum's own replay of a pending
\* journal; smaller when the data region held dead bytes; and last_vacuum is
\* strictly greater than it was.
C12_VacuumShrinks ==
    [][VacuumDone' =>
          /\ FileSize(PathFile)' <= FileSize(PathFile)
          /\ DeadBytes => FileSize(PathFile)' < FileSize(PathFile)
          /\ PathFile.hdr.lastVacuum' > PathFile.hdr.lastVacuum]_vars

C12_Witness ==
    /\ VacuumDone
    /\ FileSize(PathFile) < last.val
    /\ PathFile.hdr.lastVacuum > MaxClock
    /\ Len(model) = 1

\* C13: when a step of vacuum's body fails, then after vacuum throws
\* <db>.temp does not exist, the db file is as it was when the copy began and
\* the handle's in-memory header, index, data_tail are unchanged.
C13_VacuumFailureCleansUp ==
    [][(last'.op = "vacuum" /\ last'.err = "io") =>
          /\ temp' = <<>>
          /\ path' = path /\ PathFile' = PathFile
          /\ cache'[last'.h] = cache[last'.h]]_vars

C13_Witness ==
    /\ last.op = "vacuum" /\ last.err = "io"
    /\ temp = <<>>
    /\ Len(model) = 2 /\ DiskMatchesModel
    /\ \A k \in Keys : ReadNow(last.h, k) = Expect(k)

\* C16: after an operation has returned or thrown, whatever I/O step
\* failed, its handle holds no lock on the db file and no descriptor of it.
C16_LockReleased ==
    last.op # "" => held[last.h] = "none" /\ fd[last.h] = NoFd

WellFormedFile(f) ==
    /\ f.hdr.magic = createDefaultHeader.magic
    /\ f.hdr.version = HEADER_VERSION
    /\ HEADER_SIZE + f.hdr.dataSize + f.hdr.indexSize <= FileSize(f)
    /\ IsIndexBytes(ReadAt(f, HEADER_SIZE + f.hdr.dataSize, f.hdr.indexSize))

\* C15: opening an existing file yields a handle only when magic and version
\* are right, the file is at least 36 + data_size + index_size long and the
\* index region decodes to a map, whatever last_modified holds.
C15_CorruptFileRejected ==
    last.op = "open" /\ last.err = "" => WellFormedFile(PathFile)

\* C17: applying a journal is idempotent: on the file the journal belongs
\* to, applying its transaction twice gives the same bytes as applying it
\* once, and applying it after any prefix of its writes was already applied
\* gives the same bytes as one full application.
C17_JournalIdempotent ==
    journal.st = "ok" =>
        LET t    == journal.tx
            once == performTransaction(PathFile, t)
        IN  /\ performTransaction(once, t) = once
            /\ \A n \in 0..Len(TxWrites(t)) :
                  performTransaction(ApplyWrites(PathFile, t, TxWrites(t), n), t) = once

\* A journal left beside a file that holds a proper prefix of its writes:
\* the data and the header of a write, the index not yet
C17_Witness ==
    /\ journal.st = "ok"
    /\ journal.tx.operation = "write"
    /\ Quiescent
    /\ PathFile.hdr = journal.tx.header
    /\ PathFile # performTransaction(PathFile, journal.tx)
    /\ Len(model) = 2

\* C18: keys() lists the keys in insertion order: a key first written
\* earlier comes first, an overwrite keeps the key's position, a delete
\* removes the key without reordering the others, a key written again after
\* its delete comes last; the same on every handle and after a reopen.
C18_KeysInsertionOrder ==
    /\ (last.op = "keys" => last.err = "" /\ last.ks = ExpectKeys)
    /\ (last.op = "open" /\ last.err = "" => KeysNow(last.h) = ExpectKeys)

\* "a" was deleted and written again after "b": the other handle lists b, a
C18_Witness ==
    /\ last.op = "keys" /\ last.h = "B"
    /\ last.ks = <<"b", "a">>
    /\ \E i \in 1..Len(model) : model[i].key = "a" /\ model[i].by = "A"

\* C19: delete(k) of a key the database does not hold still commits: the key
\* set and every value stay as they were, on the file and for the deleting
\* handle, and last_modified on disk becomes strictly greater; so does a
\* second delete of the same key.
C19_DeleteAbsentCommits ==
    [][(last'.op = "delete" /\ last'.err = "" /\ ~IndexHas(Disk.cache.index, last'.key)) =>
          /\ PathLm' > PathLm
          /\ journal' = NoJournal
          /\ IndexKeys(Disk.cache.index)' = IndexKeys(Disk.cache.index)
          /\ \A k \in Keys : DiskRead(k)' = DiskRead(k)
          /\ \A h \in Handles : h = last'.h =>
                /\ \A k \in Keys : ReadNow(h, k)' = DiskRead(k)
                /\ KeysNow(h)' = IndexKeys(Disk.cache.index)]_vars

\* The second of two deletes on a database nothing was ever written to
C19_Witness ==
    /\ last.op = "delete" /\ last.err = ""
    /\ nops = 2
    /\ PathFile.hdr.dataSize = 0 /\ PathFile.hdr.lastVacuum = 0
    /\ PathLm > MaxClock

\* The bytes of the data region [36, 36 + data_size) of file f
DataRegion(f) == ReadAt(f, HEADER_SIZE, f.hdr.dataSize)

\* C20: between vacuums the data region is append-only: no step of a write
\* or a delete changes a byte in [36, 36 + data_size) of the state before it;
\* a write puts the encoded value exactly at the old data_tail and grows
\* data_size by its length; a delete leaves data_size and data_tail as they
\* were.
C20_DataAppendOnly ==
    [][/\ path' = path =>
            ReadAt(PathFile', HEADER_SIZE, PathFile.hdr.dataSize) = DataRegion(PathFile)
       /\ \A h \in Handles : (h = last'.h /\ last'.err = "") =>
            /\ last'.op = "write" =>
                 /\ PathFile.hdr.dataSize' = PathFile.hdr.dataSize + Len(tx[h].data)
                 /\ \E k \in Keys : k = tx[h].key /\ tx[h].data = encode(Expect(k)')
                 /\ ReadAt(PathFile', HEADER_SIZE + PathFile.hdr.dataSize, Len(tx[h].data))
                      = tx[h].data
                 /\ cache'[h].dataTail = HEADER_SIZE + PathFile.hdr.dataSize'
            /\ last'.op = "delete" =>
                 /\ PathFile.hdr.dataSize' = PathFile.hdr.dataSize
                 /\ cache'[h].dataTail = HEADER_SIZE + PathFile.hdr.dataSize]_vars

\* A write completed on a file that already held a value of two cells
C20_Witness ==
    /\ last.op = "write" /\ last.err = ""
    /\ PathFile.hdr.lastVacuum = 0
    /\ PathFile.hdr.dataSize >= 3
    /\ Len(model) = 2

\* C21: a write or a delete returns only after durability: when it has
\* returned normally the journal file does not exist and the db file holds
\* the operation's header, its index and the value it wrote.
C21_ReturnsAfterDurability ==
    (last.op \in {"write", "delete"} /\ last.err = "") =>
        /\ journal.st = "none"
        /\ PathFile.hdr = cache[last.h].header
        /\ Disk.err = ""
        /\ Disk.cache.index = cache[last.h].index
        /\ DiskRead(last.key) = Expect(last.key)
        /\ FileSize(PathFile) >= HEADER_SIZE + PathFile.hdr.dataSize + PathFile.hdr.indexSize

\* A write of a two-cell value returned on a database with two keys
C21_Witness ==
    /\ last.op = "write" /\ last.err = ""
    /\ journal = NoJournal
    /\ Len(model) = 2
    /\ DiskRead(last.key) = 2

\* The values the expected content holds, in its order
ExpectValues == [i \in 1..Len(model) |-> model[i].val]

\* C22: dump emits a document whose data object holds exactly the live keys,
\* in index insertion order, each with its last written value, and whose
\* meta reports version 1 and the header's current data_size and index_size.
C22_DumpLiveKeysInOrder ==
    (last.op = "dump") =>
        /\ last.err = ""
        /\ last.ks = ExpectKeys
        /\ last.val.data = ExpectValues
        /\ last.val.meta.version = HEADER_VERSION
        /\ last.val.meta.data_size = PathFile.hdr.dataSize
        /\ last.val.meta.index_size = PathFile.hdr.indexSize

LiveTotal == LiveBytes(Disk.cache.index, Len(Disk.cache.index))

DeadTotal == PathFile.hdr.dataSize - LiveTotal

\* Every entry of the index on disk starts where the entry before it ends,
\* the first one at offset 36
Dense ==
    \A i \in 1..Len(Disk.cache.index) :
        Disk.cache.index[i].offset = HEADER_SIZE + LiveBytes(Disk.cache.index, i - 1)

\* C24: after a successful vacuum the data region is dense: data_size is the
\* sum of the sizes of the live entries, the entries lie one after another
\* from offset 36 in index insertion order, and data_size has shrunk by
\* exactly the size of the dead records the region held when it was copied.
C24_VacuumDense ==
    [][VacuumDone' =>
          /\ Disk.err' = ""
          /\ PathFile.hdr.dataSize' = LiveTotal'
          /\ Dense'
          /\ PathFile.hdr.dataSize - PathFile.hdr.dataSize' = DeadTotal]_vars

\* A vacuum that dropped a dead record and kept two live ones
C24_Witness ==
    /\ VacuumDone
    /\ Len(Disk.cache.index) = 2
    /\ Dense
    /\ PathFile.hdr.dataSize = LiveTotal
    /\ PathFile.hdr.dataSize + HEADER_SIZE + PathFile.hdr.indexSize < last.val

\* C25: the in-memory image mirrors the disk: when an operation on a handle
\* has completed successfully and no other handle has mutated the file
\* since, the handle's index is the index on disk (keys, offsets, sizes,
\* order), its header is the header on disk, its data_tail is
\* 36 + data_size and its cached last_modified is the header's.
C25_ImageMirrorsDisk ==
    (last.op # "" /\ last.err = "") =>
        /\ Disk.err = ""
        /\ cache[last.h].index = Disk.cache.index
        /\ cache[last.h].header = PathFile.hdr
        /\ cache[last.h].dataTail = HEADER_SIZE + PathFile.hdr.dataSize
        /\ cache[last.h].lastModified = PathLm

\* A read on one handle that found two keys the other handle had written
C25_Witness ==
    /\ last.op = "read" /\ last.err = ""
    /\ Len(model) = 2
    /\ \A i \in 1..Len(model) : model[i].by # last.h
    /\ cache[last.h].dataTail > HEADER_SIZE + 2
    /\ Len(cache[last.h].index) = 2

\* C26: no committed write is lost to a concurrent vacuum: once a handle's
\* write(k, v) has returned successfully, read(k) on every handle returns v
\* until a later write or delete of k, also when the writer opened the db
\* file before another handle's vacuum renamed the compacted file over it
\* and took its lock after the vacuum released its own.
C26_NoLostWrite ==
    (last.op = "write" /\ last.err = "" /\ Quiescent /\ journal = NoJournal) =>
        \A i \in 1..Len(model) :
            (model[i].key = last.key /\ model[i].by = last.h) =>
                \A h \in Idle : ReadNow(h, last.key) = model[i].val

\* C27: a read, keys or dump that overlaps a write or a delete in flight on
\* another live handle completes without an error; it does not fail when it
\* saw the writer's journal exist before it took the lock and finds the
\* journal removed once it holds the lock.
C27_ReadOverlapsWrite ==
    last.op \in {"read", "keys", "dump"} => last.err # "enoent"

\* C28: a write or a delete that throws before its journal is written has no
\* observable effect: the db file is unchanged, and every later read or
\* keys() on that handle returns committed state only, also after another
\* handle commits a mutation whose last_modified equals the value the failed
\* operation left in the first handle's cache.
C28_FailedWriteInvisible ==
    [][/\ (last'.op \in {"write", "delete"} /\ last'.err = "io") =>
             path' = path /\ PathFile' = PathFile /\ journal' = NoJournal
       /\ last'.op = "read" =>
             last'.err = "" /\ \A k \in Keys : k = last'.key => last'.val = DiskRead(k)'
       /\ last'.op = "keys" => last'.err = "" /\ last'.ks = IndexKeys(Disk.cache.index)']_vars

\* The byte ranges of any two entries of index are disjoint
Disjoint(index) ==
    \A i, j \in 1..Len(index) :
        i # j => \/ index[i].offset + index[i].size <= index[j].offset
                 \/ index[j].offset + index[j].size <= index[i].offset

\* C29: in every committed state the byte ranges [offset, offset + size) of
\* any two live index entries are disjoint and inside the data region, and
\* after a write has completed every other key still reads its own value.
C29_EntriesDisjoint ==
    /\ journal = NoJournal =>
          /\ Disk.err = ""
          /\ Disjoint(Disk.cache.index)
          /\ \A i \in 1..Len(Disk.cache.index) :
                 /\ Disk.cache.index[i].offset >= HEADER_SIZE
                 /\ Disk.cache.index[i].offset + Disk.cache.index[i].size
                       <= HEADER_SIZE + PathFile.hdr.dataSize
    /\ (last.op = "write" /\ last.err = "") =>
          \A k \in Keys : k # last.key => DiskRead(k) = Expect(k)

\* A write completed beside another live key and a dead record
C29_Witness ==
    /\ last.op = "write" /\ last.err = ""
    /\ Len(Disk.cache.index) = 2
    /\ DeadBytes
    /\ Disjoint(Disk.cache.index)
    /\ \E k \in Keys : k # last.key /\ DiskRead(k) = 2

\* C30: read, keys and dump are read-only when no journal is present: the
\* step that completes one leaves the path and every byte of the db file as
\* they were, creates no journal and no temp file, and changes the handle's
\* header, index, data_tail and last_modified only when last_modified on
\* disk differs from the cached one.
C30_ReadersReadOnly ==
    [][\A h \in Handles :
          (h = last'.h /\ last'.op \in {"read", "keys", "dump"} /\ journal = NoJournal) =>
              /\ path' = path
              /\ PathFile' = PathFile
              /\ journal' = NoJournal
              /\ temp' = temp
              /\ cache'[h] # cache[h] => PathLm # cache[h].lastModified
              /\ \A g \in Handles \ {h} : cache'[g] = cache[g]]_vars

\* A dump on a handle whose image was current, and that kept it
C30_Witness ==
    /\ last.op = "dump" /\ last.err = ""
    /\ Len(model) = 2
    /\ \E i \in 1..Len(model) : model[i].by = last.h
    /\ \E i \in 1..Len(model) : model[i].by # last.h
    /\ cache[last.h].lastModified = PathLm

\* The handle has called flock and the call has not returned
Waiting(h) == pc[h] \in {"w_lock", "v_lock", "c_lock", "rec_lock", "r_lock"}

\* The handle is inside an operation: it has neither returned nor thrown
\* ("leak": vacuum has thrown out of its finally block)
Busy(h) == pc[h] \notin {"idle", "closed", "leak"}

\* C31: deadlock freedom: with handles issuing read, write, delete, keys,
\* dump and vacuum on the same path, lock granting fair and the locks of
\* killed holders released, no handle waits for a lock while it holds one,
\* and every operation a handle has started returns, throws or ends with
\* the death of its process.
C31_DeadlockFree ==
    /\ [](\A h \in Handles : Waiting(h) => held[h] = "none")
    /\ \A h \in Handles : Busy(h) ~> ~Busy(h)

\* The file the path names stays as it is, or becomes the complete image a
\* vacuum of it by handle h produces, h's temp file having been renamed
\* over it
PreOrPost(h) ==
    \/ PathFile' = PathFile
    \/ /\ pc[h] = "v_rename"
       /\ \E now \in 0..MaxClock : PathFile' = vacuumBuild(cache[h], PathFile, now).temp

\* An open that has just returned succeeded and reads every key's value
OpenReadsLive ==
    last.op = "open" =>
        /\ last.err = ""
        /\ \A k \in Keys : ReadNow(last.h, k) = Expect(k)

\* C32 as stated: whatever a handle inside vacuum() does up to its return
\* or its death, the file at the path is byte for byte the image from
\* before or the complete vacuumed image, and an open that follows succeeds
\* and reads every live key's value, a temp file left behind or not.
C32_VacuumAtomicAlways ==
    /\ [][\A h \in Handles : pc[h] \in {"v_lock", "v_rename"} => PreOrPost(h)]_vars
    /\ []OpenReadsLive

\* C32: a vacuum that finds no journal to replay leaves the file at the
\* path, wherever it is killed, byte for byte the image from before or the
\* complete vacuumed image; with or without a journal, and with or without
\* a temp file left behind, an open that follows succeeds and reads every
\* live key's value.
C32_VacuumAtomic ==
    /\ [][\A h \in Handles :
              pc[h] \in {"v_lock", "v_rename"} /\ journal.st = "none" => PreOrPost(h)]_vars
    /\ []OpenReadsLive

\* A vacuum of a file with a live key was killed inside its copy loop, the
\* cut temp file is still there, and the open that followed has returned
C32_Witness ==
    /\ temp # <<>>
    /\ \A h \in Handles : pc[h] # "v_rename"
    /\ Len(model) >= 1
    /\ last.op = "open" /\ last.err = ""
    /\ Expect(model[1].key) = ReadNow(last.h, model[1].key)

====
